---- MODULE Spec2Model ----
(***************************************************************************)
(* A model of the change-impact analysis of tlowerison/ops:                *)
(*   - git_diff_name_status_since_last_branch (the base-commit resolver    *)
(*     with its two-process history scan),                                 *)
(*   - parse_git_statuses (the diff status parser, byte offsets included), *)
(*   - workspace_clippy (status loop, package-membership walk, dependency  *)
(*     traversal, check-runner loop).                                      *)
(* Strings that the code slices or compares byte-wise (diff lines, paths)  *)
(* are sequences of one-character strings; package names are plain         *)
(* strings, the code only compares them.                                   *)
(***************************************************************************)
EXTENDS Integers, Sequences, FiniteSets, TLC

\* ------------------------------------------------------------------ bounds
\* the largest number of lines of a diff text
MaxRecords == 2
\* the largest number of keys of one manifest's `dependencies` table
MaxDeps == 2
\* the largest number of commits of the first-parent history
MaxHistory == 3

\* ------------------------------------------------------------- characters
TAB == "\t"
NL == "\n"
SP == " "

IsWhitespace(c) == c \in {SP, TAB, NL}

RECURSIVE TrimStart(_)
TrimStart(s) ==
  IF s = <<>> THEN <<>>
  ELSE IF IsWhitespace(Head(s)) THEN TrimStart(Tail(s)) ELSE s

RECURSIVE TrimEnd(_)
TrimEnd(s) ==
  IF s = <<>> THEN <<>>
  ELSE IF IsWhitespace(s[Len(s)]) THEN TrimEnd(SubSeq(s, 1, Len(s) - 1)) ELSE s

\* str::trim
Trim(s) == TrimEnd(TrimStart(s))

\* the byte range s[a..b] of Rust, zero-based and half-open
Slice(s, a, b) == SubSeq(s, a + 1, b)

SliceFromNext(s, a) == SubSeq(s, a + 2, Len(s))

\* the byte range s[a..]
SliceFrom(s, a) == SubSeq(s, a + 1, Len(s))

\* the last position of character c in s, 0 when there is none
RECURSIVE LastIndexOf(_, _)
LastIndexOf(s, c) ==
  IF s = <<>> THEN 0
  ELSE IF s[Len(s)] = c THEN Len(s) ELSE LastIndexOf(SubSeq(s, 1, Len(s) - 1), c)

\* the first position of character c in s, 0 when there is none
FirstIndexOf(s, c) ==
  IF \E i \in 1..Len(s) : s[i] = c
  THEN CHOOSE i \in 1..Len(s) : s[i] = c /\ \A j \in 1..(i - 1) : s[j] # c
  ELSE 0

\* str::split('\n')
RECURSIVE SplitLines(_)
SplitLines(s) ==
  LET k == FirstIndexOf(s, NL)
  IN IF k = 0 THEN <<s>>
     ELSE <<SubSeq(s, 1, k - 1)>> \o SplitLines(SubSeq(s, k + 1, Len(s)))

\* str::split_whitespace().next(): <<>> stands for None (a token is never empty)
FirstToken(s) ==
  LET t == TrimStart(s)
      ends == {i \in 1..Len(t) : IsWhitespace(t[i])}
  IN IF t = <<>> THEN <<>>
     ELSE IF ends = {} THEN t
     ELSE SubSeq(t, 1, (CHOOSE i \in ends : \A j \in ends : i <= j) - 1)

\* the lines of a text joined by '\n'
RECURSIVE JoinLines(_)
JoinLines(ls) ==
  IF ls = <<>> THEN <<>>
  ELSE IF Len(ls) = 1 THEN ls[1]
  ELSE ls[1] \o <<NL>> \o JoinLines(Tail(ls))

\* ------------------------------------------------------------------ paths
SLASH == "/"
DOT == "."

CargoToml == <<"C", "a", "r", "g", "o", ".", "t", "o", "m", "l">>
CargoLock == <<"C", "a", "r", "g", "o", ".", "l", "o", "c", "k">>
RootDir == <<>>

\* Path::parent is None for the empty path and for the root "/"
HasParent(p) == p # <<>> /\ p # <<SLASH>>

\* Path::parent: the path without its final component
Parent(p) ==
  LET k == LastIndexOf(p, SLASH)
  IN IF k = 0 THEN <<>>
     ELSE IF k = 1 THEN <<SLASH>>
     ELSE SubSeq(p, 1, k - 1)

\* Path::file_name
FileName(p) == SubSeq(p, LastIndexOf(p, SLASH) + 1, Len(p))

\* Path::extension: <<>> stands for None (no dot, or only a leading dot)
Extension(p) ==
  LET f == FileName(p)
      k == LastIndexOf(f, DOT)
  IN IF k <= 1 THEN <<>> ELSE SubSeq(f, k + 1, Len(f))

\* Path::join of a directory and a relative file name
Join(dir, name) ==
  IF dir = <<>> THEN name
  ELSE IF dir[Len(dir)] = SLASH THEN dir \o name
  ELSE dir \o <<SLASH>> \o name

\* ------------------------------------------------- parse_git_statuses
\* enum GitStatus
Added(f) == [kind |-> "Added", file |-> f]
Deleted(f) == [kind |-> "Deleted", file |-> f]
FileTypeChanged(f) == [kind |-> "FileTypeChanged", file |-> f]
Modified(f) == [kind |-> "Modified", file |-> f]
Renamed(o, n) == [kind |-> "Renamed", old |-> o, new |-> n]

Arrow == <<SP, "-", ">", SP>>

\* the i-th (zero-based) element of windows(4)
Window(rest, i) == SubSeq(rest, i + 1, i + 4)

\* whether window i yields indices: the " -> " separator, or a tab in front
WindowMatches(rest, i) == Window(rest, i) = Arrow \/ Window(rest, i)[1] = TAB

\* (start1, end1, start2) for the matching window i
RenameIndices(rest, i) ==
  IF Window(rest, i) = Arrow THEN <<2, i + 3, i + 7>> ELSE <<2, i + 3, i + 4>>

\* the branch of a status beginning with 'R': the first matching window decides
ParseRename(line) ==
  LET rest == Trim(SliceFrom(line, 2))
      hits == {i \in 0..(Len(rest) - 4) : WindowMatches(rest, i)}
  IN IF hits = {} THEN [ok |-> FALSE]
     ELSE LET i == CHOOSE h \in hits : \A g \in hits : h <= g
              ix == RenameIndices(rest, i)
              old == Trim(Slice(line, ix[1], ix[2]))
              new == Trim(SliceFrom(line, ix[3]))
          IN [ok |-> TRUE,
              status |-> IF old = new THEN Modified(new) ELSE Renamed(old, new)]

\* the body of the loop over the lines, for one line of at least 3 bytes:
\* skip (no token), a record, or the unsupported-status error
ParseLine(line) ==
  LET status == FirstToken(line)
      file == Trim(SliceFrom(line, 2))
  IN IF status = <<>> THEN [ok |-> TRUE, skip |-> TRUE]
     ELSE IF status = <<"A">> THEN [ok |-> TRUE, skip |-> FALSE, status |-> Added(file)]
     ELSE IF status = <<"D">> THEN [ok |-> TRUE, skip |-> FALSE, status |-> Deleted(file)]
     ELSE IF status \in {<<"M">>, <<"M", "M">>, <<"A", "M">>}
       THEN [ok |-> TRUE, skip |-> FALSE, status |-> Modified(file)]
     ELSE IF status[1] = "R"
       THEN IF ParseRename(line).ok
            THEN [ok |-> TRUE, skip |-> FALSE, status |-> ParseRename(line).status]
            ELSE [ok |-> FALSE]
     ELSE IF status = <<"T">>
       THEN [ok |-> TRUE, skip |-> FALSE, status |-> FileTypeChanged(file)]
     ELSE [ok |-> FALSE]

RECURSIVE ParseLinesUpToError(_, _)
ParseLinesUpToError(lines, acc) ==
  IF lines = <<>> THEN [ok |-> TRUE, statuses |-> acc]
  ELSE IF Len(Head(lines)) < 3 THEN ParseLinesUpToError(Tail(lines), acc)
  ELSE LET r == ParseLine(Head(lines))
       IN IF ~r.ok THEN [ok |-> TRUE, statuses |-> acc]
          ELSE IF r.skip THEN ParseLinesUpToError(Tail(lines), acc)
          ELSE ParseLinesUpToError(Tail(lines), Append(acc, r.status))

RECURSIVE ParseLines(_, _)
ParseLines(lines, acc) ==
  IF lines = <<>> THEN [ok |-> TRUE, statuses |-> acc]
  ELSE IF Len(Head(lines)) < 3 THEN ParseLines(Tail(lines), acc)
  ELSE LET r == ParseLine(Head(lines))
       IN IF ~r.ok THEN [ok |-> FALSE, line |-> Head(lines)]
          ELSE IF r.skip THEN ParseLines(Tail(lines), acc)
          ELSE ParseLines(Tail(lines), Append(acc, r.status))

\* parse_git_statuses: Ok(statuses) or Err("unsupported git status: {line}")
parse_git_statuses(t) == ParseLines(SplitLines(Trim(t)), <<>>)

\* ------------------------------------------------------------ the state
VARIABLES
  \* the file system: the directories that hold a Cargo.toml, whether the
  \* root manifest has a `package` table, every manifest's `dependencies`
  \* keys, and the names of `workspace.dependencies` that carry a `path`
  manifest_dirs, root_is_package, cargo_deps, workspace_path_deps,
  \* workspace_clippy
  pc, text, git_statuses, next_status,
  package_paths, no_package_dirs, no_package_paths,
  internal_crate_path_map, package_cargos, changed_package_names,
  top_level_changed_package_names, queue, analyzed_package_names,
  target, runner_calls, result,
  \* the exit status of every check-runner invocation (TRUE: success)
  runner_status,
  \* the line that the unsupported-status error of the parser names (<<>>: none)
  error_line,
  \* the repository: the current branch, whether `git rev-list origin/<branch>`
  \* succeeds, whether the remote head is an ancestor of HEAD, the first-parent
  \* history (commits 1..history_len, the tip first), the first commit of it that
  \* another branch contains (history_len + 1: none), whether that branch is
  \* listed before the current one, what `git diff --name-status` prints and
  \* whether it exits with success
  branch, probe_succeeds, head_is_ancestor, history_len, divergence, other_first,
  diff_output, diff_succeeds,
  \* git_diff_name_status_since_last_branch
  g_pc, remote_branch, probe_ran, base_commit, diff_base,
  \* its pipeline: rev_list and its stdout, xargs (branch_contains), the
  \* `sh -c` child it is running (the lines it has still to write) and its stdout
  rev_list, rev_list_next, rev_list_stdout,
  branch_contains, child, branch_contains_stdout

fs_vars == <<manifest_dirs, root_is_package, cargo_deps, workspace_path_deps>>
memo_vars == <<package_paths, no_package_dirs, no_package_paths>>
bfs_vars == <<internal_crate_path_map, package_cargos, changed_package_names,
              top_level_changed_package_names, queue, analyzed_package_names>>
clippy_vars == <<pc, text, git_statuses, next_status, memo_vars, bfs_vars,
                 target, runner_calls, runner_status, result, error_line>>

repo_vars == <<branch, probe_succeeds, head_is_ancestor, history_len, divergence,
               other_first, diff_output, diff_succeeds>>
pipeline_vars == <<rev_list, rev_list_next, rev_list_stdout,
                   branch_contains, child, branch_contains_stdout>>
resolver_vars == <<g_pc, remote_branch, probe_ran, base_commit, diff_base, pipeline_vars>>

\* what a step of the resolver or of its pipeline leaves alone
ResolverOnly == UNCHANGED <<fs_vars, repo_vars, clippy_vars>>

Range(f) == {f[x] : x \in DOMAIN f}

\* the empty HashMap
EmptyMap == [x \in {} |-> x]

\* the permutations of a finite set, as sequences
Perms(S) ==
  {s \in [1..Cardinality(S) -> S] : \A i, j \in DOMAIN s : i # j => s[i] # s[j]}

\* --------------------------------------------- get_cargo_package_of_file
EligibleWhatever(path) == TRUE

\* only "Cargo.toml" (the whole path) and *.rs files are looked up
Eligible(path) == path = CargoToml \/ Extension(path) = <<"r", "s">>

\* Path::exists for a manifest path
Exists(p) == \E d \in manifest_dirs : Join(d, CargoToml) = p

InsertStopOnly(pp, dirs, pkg) ==
  [d \in DOMAIN pp \cup {pkg} |-> IF d = pkg THEN pkg ELSE pp[d]]

\* HashMap::insert of every directory of dirs with the value pkg
InsertAll(pp, dirs, pkg) ==
  [d \in DOMAIN pp \cup dirs |-> IF d \in dirs THEN pkg ELSE pp[d]]

RECURSIVE WalkMemoAsRoot(_, _, _, _, _, _)
WalkMemoAsRoot(path, cur_path, subs, pp, npd, npp) ==
  LET unowned == [package_paths |-> pp,
                  no_package_dirs |-> npd \cup subs,
                  no_package_paths |-> npp \cup {path}]
  IN IF ~HasParent(cur_path) THEN unowned
     ELSE LET parent == Parent(cur_path)
              visited == subs \cup {parent}
          IN IF parent \in npd
               THEN [unowned EXCEPT !.no_package_dirs = npd \cup visited]
             ELSE IF parent \in DOMAIN pp
               THEN [package_paths |-> InsertAll(pp, visited, parent),
                     no_package_dirs |-> npd, no_package_paths |-> npp]
             ELSE IF Exists(Join(parent, CargoToml))
               THEN [package_paths |-> InsertAll(pp, visited, parent),
                     no_package_dirs |-> npd, no_package_paths |-> npp]
             ELSE WalkMemoAsRoot(path, parent, visited, pp, npd, npp)

RECURSIVE WalkBreakingAtManifest(_, _, _, _, _, _)
WalkBreakingAtManifest(path, cur_path, subs, pp, npd, npp) ==
  LET unowned == [package_paths |-> pp,
                  no_package_dirs |-> npd \cup subs,
                  no_package_paths |-> npp \cup {path}]
  IN IF ~HasParent(cur_path) THEN unowned
     ELSE LET parent == Parent(cur_path)
              visited == subs \cup {parent}
          IN IF parent \in npd
               THEN [unowned EXCEPT !.no_package_dirs = npd \cup visited]
             ELSE IF parent \in DOMAIN pp
               THEN [package_paths |-> InsertAll(pp, visited, pp[parent]),
                     no_package_dirs |-> npd, no_package_paths |-> npp]
             ELSE IF Exists(Join(parent, CargoToml))
               THEN [package_paths |-> InsertAll(pp, visited, parent),
                     no_package_dirs |-> npd \cup visited,
                     no_package_paths |-> npp \cup {path}]
             ELSE WalkBreakingAtManifest(path, parent, visited, pp, npd, npp)

RECURSIVE WalkNotMarkingAtStop(_, _, _, _, _, _)
WalkNotMarkingAtStop(path, cur_path, subs, pp, npd, npp) ==
  LET unowned == [package_paths |-> pp,
                  no_package_dirs |-> npd \cup subs,
                  no_package_paths |-> npp \cup {path}]
  IN IF ~HasParent(cur_path) THEN unowned
     ELSE LET parent == Parent(cur_path)
              visited == subs \cup {parent}
          IN IF parent \in npd
               THEN [unowned EXCEPT !.no_package_dirs = npd]
             ELSE IF parent \in DOMAIN pp
               THEN [package_paths |-> InsertAll(pp, visited, pp[parent]),
                     no_package_dirs |-> npd, no_package_paths |-> npp]
             ELSE IF Exists(Join(parent, CargoToml))
               THEN [package_paths |-> InsertAll(pp, visited, parent),
                     no_package_dirs |-> npd, no_package_paths |-> npp]
             ELSE WalkNotMarkingAtStop(path, parent, visited, pp, npd, npp)

\* the upward walk from cur_path; subs is package_sub_dirs
RECURSIVE Walk(_, _, _, _, _, _)
Walk(path, cur_path, subs, pp, npd, npp) ==
  LET unowned == [package_paths |-> pp,
                  no_package_dirs |-> npd \cup subs,
                  no_package_paths |-> npp \cup {path}]
  IN IF ~HasParent(cur_path) THEN unowned
     ELSE LET parent == Parent(cur_path)
              visited == subs \cup {parent}
          IN IF parent \in npd
               THEN [unowned EXCEPT !.no_package_dirs = npd \cup visited]
             ELSE IF parent \in DOMAIN pp
               THEN [package_paths |-> InsertAll(pp, visited, pp[parent]),
                     no_package_dirs |-> npd, no_package_paths |-> npp]
             ELSE IF Exists(Join(parent, CargoToml))
               THEN [package_paths |-> InsertAll(pp, visited, parent),
                     no_package_dirs |-> npd, no_package_paths |-> npp]
             ELSE Walk(path, parent, visited, pp, npd, npp)

\* the directories in which the walk from cur_path evaluates
\* parent.join("Cargo.toml").exists()
RECURSIVE Probes(_, _, _)
Probes(cur_path, pp, npd) ==
  IF ~HasParent(cur_path) THEN {}
  ELSE LET parent == Parent(cur_path)
       IN IF parent \in npd \/ parent \in DOMAIN pp THEN {}
          ELSE IF Exists(Join(parent, CargoToml)) THEN {parent}
          ELSE {parent} \cup Probes(parent, pp, npd)

get_cargo_package_of_file(path, pp, npd, npp) ==
  IF ~Eligible(path)
  THEN [package_paths |-> pp, no_package_dirs |-> npd, no_package_paths |-> npp]
  ELSE Walk(path, path, {}, pp, npd, npp)

\* ------------------------------ git_diff_name_status_since_last_branch
REMOTE == <<"o", "r", "i", "g", "i", "n">>

\* the commit `git rev-parse <remote_branch>~0` prints
RemoteHead == 0

\* branch.len() > REMOTE.len() && branch[..6] == REMOTE && branch[6..7] == "/"
IsRemoteName(b) ==
  /\ Len(b) > Len(REMOTE)
  /\ Slice(b, 0, Len(REMOTE)) = REMOTE
  /\ Slice(b, Len(REMOTE), Len(REMOTE) + 1) = <<SLASH>>

\* the two bytes of a character outside ASCII (such as the u-umlaut, C3 BC); the
\* second is a UTF-8 continuation byte
LeadByte == "<C3>"
ContinuationByte == "<BC>"

\* str::is_char_boundary
IsCharBoundary(s, i) ==
  \/ i = 0
  \/ i = Len(s)
  \/ i < Len(s) /\ s[i + 1] # ContinuationByte

\* the slices of the test for a remote name panic when they do not end on a
\* character boundary; `&&` evaluates its operands from the left, as far as needed
RemoteTestPanics(b) ==
  /\ Len(b) > Len(REMOTE)
  /\ \/ ~IsCharBoundary(b, Len(REMOTE))
     \/ /\ Slice(b, 0, Len(REMOTE)) = REMOTE
        /\ ~IsCharBoundary(b, Len(REMOTE) + 1)

\* the lines of `git branch --contains h && echo 'COMMIT: h'`
CurLine == [kind |-> "current"]
OtherLine == [kind |-> "other"]
CommitLine(h) == [kind |-> "commit", hash |-> h]

ContainsLines(h) ==
  IF h < divergence THEN <<CurLine, CommitLine(h)>>
  ELSE IF other_first THEN <<OtherLine, CurLine, CommitLine(h)>>
  ELSE <<CurLine, OtherLine, CommitLine(h)>>

\* lines 20-36: the remote branch, by name or by the probe
DetectRemote ==
  /\ g_pc = "detect"
  /\ IF RemoteTestPanics(branch)
     THEN /\ g_pc' = "panicked"
          /\ pc' = "done"
          /\ result' = "Panic"
          /\ UNCHANGED <<remote_branch, probe_ran>>
     ELSE /\ IF IsRemoteName(branch)
             THEN remote_branch' = <<branch>> /\ probe_ran' = FALSE
             ELSE /\ probe_ran' = TRUE
                  /\ remote_branch' = IF probe_succeeds
                                      THEN <<REMOTE \o <<SLASH>> \o branch>> ELSE <<>>
          /\ g_pc' = "fast"
          /\ UNCHANGED <<pc, result>>
  /\ UNCHANGED <<base_commit, diff_base, pipeline_vars>>
  /\ UNCHANGED <<fs_vars, repo_vars, text, git_statuses, next_status, memo_vars,
                 bfs_vars, target, runner_calls, runner_status, error_line>>

\* lines 38-53: the remote head is the base commit when it is an ancestor of HEAD
FastPathSkipped ==
  /\ g_pc = "fast"
  /\ g_pc' = "spawn"
  /\ UNCHANGED <<remote_branch, probe_ran, base_commit, diff_base, pipeline_vars>>
  /\ ResolverOnly

FastPath ==
  /\ g_pc = "fast"
  /\ IF remote_branch # <<>> /\ head_is_ancestor
     THEN base_commit' = <<RemoteHead>> /\ g_pc' = "resolve"
     ELSE UNCHANGED base_commit /\ g_pc' = "spawn"
  /\ UNCHANGED <<remote_branch, probe_ran, diff_base, pipeline_vars>>
  /\ ResolverOnly

\* lines 55-77: spawn `git rev-list --first-parent` and `xargs`
SpawnScan ==
  /\ g_pc = "spawn"
  /\ rev_list' = "running"
  /\ branch_contains' = "running"
  /\ g_pc' = "loop1"
  /\ UNCHANGED <<remote_branch, probe_ran, base_commit, diff_base,
                 rev_list_next, rev_list_stdout, child, branch_contains_stdout>>
  /\ ResolverOnly

\* the rev-list process writes its next hash, or exits after the last one
RevListStep ==
  /\ rev_list = "running"
  /\ IF rev_list_next <= history_len
     THEN /\ rev_list_stdout' = Append(rev_list_stdout, rev_list_next)
          /\ rev_list_next' = rev_list_next + 1
          /\ UNCHANGED rev_list
     ELSE /\ rev_list' = "exited"
          /\ UNCHANGED <<rev_list_next, rev_list_stdout>>
  /\ UNCHANGED <<g_pc, remote_branch, probe_ran, base_commit, diff_base,
                 branch_contains, child, branch_contains_stdout>>
  /\ ResolverOnly

\* xargs, with no child running, reads the next hash and runs `sh -c` on it,
\* or exits at the end of its input
XargsStep ==
  /\ branch_contains = "running"
  /\ child = <<>>
  /\ IF rev_list_stdout # <<>>
     THEN /\ child' = ContainsLines(Head(rev_list_stdout))
          /\ rev_list_stdout' = Tail(rev_list_stdout)
          /\ UNCHANGED branch_contains
     ELSE /\ rev_list # "running"
          /\ branch_contains' = "exited"
          /\ UNCHANGED <<child, rev_list_stdout>>
  /\ UNCHANGED <<g_pc, remote_branch, probe_ran, base_commit, diff_base,
                 rev_list, rev_list_next, branch_contains_stdout>>
  /\ ResolverOnly

\* the `sh -c` child writes its next line; killing xargs does not stop it
ChildWrite ==
  /\ child # <<>>
  /\ branch_contains_stdout' = Append(branch_contains_stdout, Head(child))
  /\ child' = Tail(child)
  /\ UNCHANGED <<g_pc, remote_branch, probe_ran, base_commit, diff_base,
                 rev_list, rev_list_next, rev_list_stdout, branch_contains>>
  /\ ResolverOnly

\* the pipe from xargs is at its end: no writer is left and nothing is buffered
StdoutAtEof ==
  /\ branch_contains_stdout = <<>>
  /\ branch_contains \in {"exited", "killed"}
  /\ child = <<>>

\* lines 79-87: the first loop over the lines stops at a branch that is not the
\* current one, or at the end of the output
ScanLine ==
  /\ g_pc = "loop1"
  /\ IF branch_contains_stdout # <<>>
     THEN /\ branch_contains_stdout' = Tail(branch_contains_stdout)
          /\ g_pc' = IF Head(branch_contains_stdout).kind = "other"
                     THEN "kill_rev_list" ELSE "loop1"
     ELSE /\ StdoutAtEof
          /\ g_pc' = "kill_rev_list"
          /\ UNCHANGED branch_contains_stdout
  /\ UNCHANGED <<remote_branch, probe_ran, base_commit, diff_base,
                 rev_list, rev_list_next, rev_list_stdout, branch_contains, child>>
  /\ ResolverOnly

\* line 89: rev_list.kill().ok()
KillRevList ==
  /\ g_pc = "kill_rev_list"
  /\ rev_list' = IF rev_list = "running" THEN "killed" ELSE rev_list
  /\ g_pc' = "kill_branch_contains"
  /\ UNCHANGED <<remote_branch, probe_ran, base_commit, diff_base,
                 rev_list_next, rev_list_stdout, branch_contains, child,
                 branch_contains_stdout>>
  /\ ResolverOnly

KillBranchContainsSkipped ==
  /\ g_pc = "kill_branch_contains"
  /\ g_pc' = "loop2"
  /\ UNCHANGED <<remote_branch, probe_ran, base_commit, diff_base, pipeline_vars>>
  /\ ResolverOnly

\* line 90: branch_contains.kill().ok()
KillBranchContains ==
  /\ g_pc = "kill_branch_contains"
  /\ branch_contains' = IF branch_contains = "running" THEN "killed" ELSE branch_contains
  /\ g_pc' = "loop2"
  /\ UNCHANGED <<remote_branch, probe_ran, base_commit, diff_base,
                 rev_list, rev_list_next, rev_list_stdout, child,
                 branch_contains_stdout>>
  /\ ResolverOnly

\* lines 92-96: every remaining COMMIT line overwrites base_commit
DrainLine ==
  /\ g_pc = "loop2"
  /\ IF branch_contains_stdout # <<>>
     THEN /\ branch_contains_stdout' = Tail(branch_contains_stdout)
          /\ base_commit' = IF Head(branch_contains_stdout).kind = "commit"
                            THEN <<Head(branch_contains_stdout).hash>>
                            ELSE base_commit
          /\ UNCHANGED g_pc
     ELSE /\ StdoutAtEof
          /\ g_pc' = "resolve"
          /\ UNCHANGED <<base_commit, branch_contains_stdout>>
  /\ UNCHANGED <<remote_branch, probe_ran, diff_base,
                 rev_list, rev_list_next, rev_list_stdout, branch_contains, child>>
  /\ ResolverOnly

ResolveBaseCommitOrHead ==
  /\ g_pc = "resolve"
  /\ pc = "resolve"
  /\ g_pc' = "done"
  /\ diff_base' = IF base_commit = <<>> THEN <<history_len>> ELSE base_commit
  /\ text' = IF diff_succeeds THEN Trim(diff_output) ELSE <<>>
  /\ pc' = "parse"
  /\ UNCHANGED <<fs_vars, repo_vars, remote_branch, probe_ran, base_commit, pipeline_vars,
                 git_statuses, next_status, memo_vars, bfs_vars, target, runner_calls, runner_status, result,
                 error_line>>

\* lines 99-106 and the caller's `let text = ...?`: the no-base-commit error, or
\* the trimmed stdout of `git diff --name-status <base_commit>` (its exit
\* status is not looked at; a failed diff prints nothing on stdout)
ResolveBaseCommit ==
  /\ g_pc = "resolve"
  /\ pc = "resolve"
  /\ g_pc' = "done"
  /\ IF base_commit = <<>>
     THEN /\ result' = "NoBaseCommit"
          /\ pc' = "done"
          /\ UNCHANGED <<diff_base, text>>
     ELSE /\ diff_base' = base_commit
          /\ text' = IF diff_succeeds THEN Trim(diff_output) ELSE <<>>
          /\ pc' = "parse"
          /\ UNCHANGED result
  /\ UNCHANGED <<fs_vars, repo_vars, remote_branch, probe_ran, base_commit, pipeline_vars,
                 git_statuses, next_status, memo_vars, bfs_vars, target, runner_calls, runner_status,
                 error_line>>

\* ------------------------------------------------------ workspace_clippy
\* the check-runner invoked without --package
WholeWorkspace == "<workspace>"

PackageDirs == {<<"a">>, <<"b">>, <<"c">>}
ExternalCrates == {"serde"}

\* `package.name` of the manifest in dir (the root's, when it has one, is "root")
PackageName(dir) == IF dir = RootDir THEN "root" ELSE dir[1]

\* the `path` of a workspace dependency
WorkspacePath(name) == <<name>>

Memo == [package_paths |-> package_paths,
         no_package_dirs |-> no_package_dirs,
         no_package_paths |-> no_package_paths]

SetMemo(m) ==
  /\ package_paths' = m.package_paths
  /\ no_package_dirs' = m.no_package_dirs
  /\ no_package_paths' = m.no_package_paths

Fail(err) == result' = err /\ pc' = "done"

\* let git_statuses = parse_git_statuses(&text)?
ParseStatuses ==
  /\ pc = "parse"
  /\ LET r == parse_git_statuses(text)
     IN IF r.ok
        THEN /\ git_statuses' = r.statuses
             /\ next_status' = 1
             /\ pc' = "statuses"
             /\ UNCHANGED <<result, error_line>>
        ELSE /\ Fail("ParseError")
             /\ error_line' = r.line
             /\ UNCHANGED <<git_statuses, next_status>>
  /\ UNCHANGED <<fs_vars, repo_vars, resolver_vars, text, memo_vars, bfs_vars, target, runner_calls, runner_status>>

\* fn workspace_run: one cargo clippy run over the whole workspace
workspace_run ==
  \E success \in BOOLEAN :
    /\ target' = WholeWorkspace
    /\ runner_calls' = Append(runner_calls, WholeWorkspace)
    /\ runner_status' = Append(runner_status, success)
    /\ result' = IF success THEN "Ok" ELSE "CheckFailed"
    /\ pc' = "done"

\* `existing` and `removed` of a status, <<>> for None
ExistingOf(st) ==
  IF st.kind \in {"Added", "FileTypeChanged", "Modified"} THEN <<st.file>>
  ELSE IF st.kind = "Renamed" THEN <<st.new>>
  ELSE <<>>

RemovedOf(st) ==
  IF st.kind = "Deleted" THEN <<st.file>>
  ELSE IF st.kind = "Renamed" THEN <<st.old>>
  ELSE <<>>

IsWorkspaceFileManifestOnly(file_name) == file_name = CargoToml

IsWorkspaceFile(file_name) == file_name = CargoToml \/ file_name = CargoLock

\* one iteration of `for git_status in git_statuses`
StatusStep ==
  /\ pc = "statuses"
  /\ next_status <= Len(git_statuses)
  /\ LET st == git_statuses[next_status]
         existing == ExistingOf(st)
         removed == RemovedOf(st)
         m1 == IF existing = <<>> THEN Memo
               ELSE get_cargo_package_of_file(existing[1], package_paths,
                                              no_package_dirs, no_package_paths)
         m2 == IF removed = <<>> THEN m1
               ELSE get_cargo_package_of_file(removed[1], m1.package_paths,
                                              m1.no_package_dirs, m1.no_package_paths)
     IN IF existing # <<>> /\ IsWorkspaceFile(existing[1])
        THEN workspace_run /\ UNCHANGED <<memo_vars, next_status>>
        ELSE IF removed # <<>> /\ IsWorkspaceFile(removed[1])
        THEN workspace_run /\ SetMemo(m1) /\ UNCHANGED next_status
        ELSE /\ SetMemo(m2)
             /\ next_status' = next_status + 1
             /\ UNCHANGED <<pc, target, runner_calls, runner_status, result>>
  /\ UNCHANGED <<fs_vars, repo_vars, resolver_vars, text, error_line, git_statuses, bfs_vars>>

UnownedCheckIgnoring ==
  /\ pc = "statuses"
  /\ next_status > Len(git_statuses)
  /\ pc' = "load"
  /\ UNCHANGED <<fs_vars, repo_vars, resolver_vars, text, error_line, git_statuses, next_status, memo_vars, bfs_vars,
                 target, runner_calls, runner_status, result>>

\* after the loop: if !no_package_paths.is_empty() { return Err(..) }
UnownedCheck ==
  /\ pc = "statuses"
  /\ next_status > Len(git_statuses)
  /\ IF no_package_paths # {}
     THEN Fail("MembershipError")
     ELSE pc' = "load" /\ UNCHANGED result
  /\ UNCHANGED <<fs_vars, repo_vars, resolver_vars, text, error_line, git_statuses, next_status, memo_vars, bfs_vars,
                 target, runner_calls, runner_status>>

AfterTraversalRejectingEmpty(q, targets) ==
  IF q # <<>> THEN pc' = "bfs" /\ UNCHANGED <<target, result>>
  ELSE /\ target' = "Packages"
       /\ IF targets = {}
          THEN result' = "CheckFailed" /\ pc' = "done"
          ELSE pc' = "check" /\ UNCHANGED result

\* where the function goes once the queue is empty: the target set is final,
\* and with no target the loop over it is empty and the function returns Ok
AfterTraversal(q, targets) ==
  IF q # <<>> THEN pc' = "bfs" /\ UNCHANGED <<target, result>>
  ELSE /\ target' = "Packages"
       /\ IF targets = {}
          THEN result' = "Ok" /\ pc' = "done"
          ELSE pc' = "check" /\ UNCHANGED result

\* from `package_paths.into_values()` to the construction of the queue
LoadManifests ==
  /\ pc = "load"
  /\ LET paths == Range(package_paths)
         readable == /\ RootDir \in manifest_dirs
                     /\ \A p \in paths : p \in manifest_dirs
                     /\ RootDir \in paths => root_is_package
         names == {PackageName(p) : p \in paths}
         path_map == [n \in names \cup workspace_path_deps |->
                        IF n \in workspace_path_deps THEN WorkspacePath(n)
                        ELSE CHOOSE p \in paths : PackageName(p) = n]
     IN IF ~readable
        THEN Fail("ManifestError") /\ UNCHANGED <<bfs_vars, target>>
        ELSE \E q \in Perms(names) :
               /\ internal_crate_path_map' = path_map
               /\ package_cargos' =
                    [n \in names |-> cargo_deps[CHOOSE p \in paths : PackageName(p) = n]]
               /\ changed_package_names' = names
               /\ top_level_changed_package_names' = names
               /\ queue' = q
               /\ analyzed_package_names' = {}
               /\ AfterTraversal(q, names)
  /\ UNCHANGED <<fs_vars, repo_vars, resolver_vars, text, error_line, git_statuses, next_status, memo_vars, runner_calls, runner_status>>

\* top_level_changed_package_names.remove(dep) for every declared dependency
WithoutDependenciesKept(top, package_dependencies) == top

WithoutDependencies(top, package_dependencies) == top \ package_dependencies

EnqueuedAgain(deps, analyzed, path_map) ==
  {d \in deps : d \in DOMAIN path_map /\ (d \notin analyzed \/ Cardinality(deps) = 1)}

EnqueuedAnyName(deps, analyzed, path_map) == {d \in deps : d \notin analyzed}

\* the dependencies that one iteration enqueues
Enqueued(deps, analyzed, path_map) ==
  {d \in deps : d \notin analyzed /\ d \in DOMAIN path_map}

\* one iteration of `while !queue.is_empty()`
Analyze ==
  /\ pc = "bfs"
  /\ queue # <<>>
  /\ LET package_name == Head(queue)
         analyzed == analyzed_package_names \cup {package_name}
         known == package_name \in DOMAIN package_cargos
     IN /\ analyzed_package_names' = analyzed
        /\ IF ~known /\ package_name \notin DOMAIN internal_crate_path_map
           THEN /\ Fail("PathError")
                /\ queue' = Tail(queue)
                /\ UNCHANGED <<package_cargos, top_level_changed_package_names, target>>
           ELSE IF ~known /\ internal_crate_path_map[package_name] \notin manifest_dirs
           THEN /\ Fail("ManifestError")
                /\ queue' = Tail(queue)
                /\ UNCHANGED <<package_cargos, top_level_changed_package_names, target>>
           ELSE LET cargos == IF known THEN package_cargos
                              ELSE [n \in DOMAIN package_cargos \cup {package_name} |->
                                      IF n = package_name
                                      THEN cargo_deps[internal_crate_path_map[n]]
                                      ELSE package_cargos[n]]
                    package_dependencies == cargos[package_name]
                    top == WithoutDependencies(top_level_changed_package_names,
                                               package_dependencies)
                IN \E order \in Perms(Enqueued(package_dependencies, analyzed,
                                               internal_crate_path_map)) :
                     /\ package_cargos' = cargos
                     /\ top_level_changed_package_names' = top
                     /\ queue' = Tail(queue) \o order
                     /\ AfterTraversal(Tail(queue) \o order, top)
  /\ UNCHANGED <<fs_vars, repo_vars, resolver_vars, text, error_line, git_statuses, next_status, memo_vars,
                 internal_crate_path_map, changed_package_names, runner_calls, runner_status>>

UncheckedRestarting == top_level_changed_package_names

\* the target packages that the loop over the target set has not reached yet
Unchecked == top_level_changed_package_names \ Range(runner_calls)

CheckStepContinuing ==
  /\ pc = "check"
  /\ \E package_name \in Unchecked, success \in BOOLEAN :
       /\ runner_calls' = Append(runner_calls, package_name)
       /\ runner_status' = Append(runner_status, success)
       /\ IF Unchecked = {package_name}
          THEN result' = (IF success THEN "Ok" ELSE "CheckFailed") /\ pc' = "done"
          ELSE IF ~success THEN result' = "CheckFailed" /\ UNCHANGED pc
          ELSE UNCHANGED <<pc, result>>
  /\ UNCHANGED <<fs_vars, repo_vars, resolver_vars, text, error_line, git_statuses, next_status, memo_vars, bfs_vars, target>>

\* one iteration of `for package_name in top_level_changed_package_names`
CheckStep ==
  /\ pc = "check"
  /\ \E package_name \in Unchecked, success \in BOOLEAN :
       /\ runner_calls' = Append(runner_calls, package_name)
       /\ runner_status' = Append(runner_status, success)
       /\ IF ~success THEN Fail("CheckFailed")
          ELSE IF Unchecked = {package_name} THEN result' = "Ok" /\ pc' = "done"
          ELSE UNCHANGED <<pc, result>>
  /\ UNCHANGED <<fs_vars, repo_vars, resolver_vars, text, error_line, git_statuses, next_status, memo_vars, bfs_vars, target>>

\* ----------------------------------------------------------- the inputs
DepNames == {"a", "b", "c"} \cup ExternalCrates
DepSets == {D \in SUBSET DepNames : Cardinality(D) <= MaxDeps}

\* the files of the diffs
FileA == <<"a", "/", "s", "/", "l", ".", "r", "s">>
FileB == <<"b", "/", "l", ".", "r", "s">>
FileAToml == <<"a", "/">> \o CargoToml
FileDoc == <<"n", "/", "r", ".", "m", "d">>
FileO == <<"o", "/", "x", ".", "r", "s">>
FileO2 == <<"o", "/", "t", "/", "y", ".", "r", "s">>
DiffFiles == {CargoToml, CargoLock, FileA, FileB, FileAToml, FileDoc, FileO, FileO2}

\* the lines of the diffs: git's `<status>\t<path>` and `R<nnn>\t<old>\t<new>`,
\* the `R  <old> -> <new>` layout, and a status the parser does not know
DiffLines ==
  {<<"M", TAB>> \o f : f \in DiffFiles \ {CargoLock, FileB}}
  \cup {<<"D", TAB>> \o f : f \in {CargoLock, FileO, FileAToml}}
  \cup {<<"A", TAB>> \o FileB, <<"T", TAB>> \o FileA}
  \cup {<<"R", "1", "0", "0", TAB>> \o FileA \o <<TAB>> \o FileB,
        <<"R", SP, SP>> \o FileA \o Arrow \o FileB,
        <<"R", SP, SP>> \o CargoToml \o Arrow \o FileDoc,
        <<"R", SP, SP>> \o FileO \o Arrow \o CargoLock,
        <<"X", TAB>> \o FileA}

\* the diffs of n lines, as sequences of lines
DiffLineSeqs(n) == [1..n -> DiffLines]

\* a workspace in which a depends on b and on an external crate
GraphAB ==
  [d \in PackageDirs \cup {RootDir} |->
     IF d = <<"a">> THEN {"b", "serde"} ELSE IF d = RootDir THEN {"a"} ELSE {}]

\* the manifests of the workspace of the diffs: a depends on b, or nothing does
DiffGraphs == {GraphAB, [d \in PackageDirs \cup {RootDir} |-> {}]}

\* the branch names: "main", "origin/f", "origin" itself, and "fix-z" followed
\* by a two-byte character
Main == <<"m", "a", "i", "n">>
BranchTwoByte == <<"f", "i", "x", "-", "z", LeadByte, ContinuationByte>>
Branches == {Main, REMOTE \o <<SLASH, "f">>, REMOTE, BranchTwoByte}

\* what `git diff --name-status` prints in the runs of the resolver
ResolverDiffs ==
  {<<>>, <<"M", TAB>> \o FileA \o <<NL>>, <<"M", TAB>> \o CargoToml \o <<NL>>,
   <<"X", TAB>> \o FileA \o <<NL>>,
   <<"R", "1", "0", "0", TAB>> \o FileA \o <<TAB>> \o FileB \o <<NL>>
     \o <<"M", TAB>> \o FileA \o <<NL>>}

\* the working tree agrees with the diff: a manifest that the diff reports as
\* modified exists, one that it reports as deleted or renamed away does not
TreeMatchesDiff(lines) ==
     /\ <<"M", TAB>> \o CargoToml \in lines => RootDir \in manifest_dirs
     /\ <<"M", TAB>> \o FileAToml \in lines => <<"a">> \in manifest_dirs
     /\ <<"R", SP, SP>> \o CargoToml \o Arrow \o FileDoc \in lines
          => RootDir \notin manifest_dirs
     /\ <<"D", TAB>> \o FileAToml \in lines => <<"a">> \notin manifest_dirs

\* ------------------------------------------------------- specifications
vars == <<fs_vars, repo_vars, resolver_vars, clippy_vars>>

\* no pipeline process has been spawned
PipelineIdle ==
  /\ rev_list = "none"
  /\ rev_list_next = 1
  /\ rev_list_stdout = <<>>
  /\ branch_contains = "none"
  /\ child = <<>>
  /\ branch_contains_stdout = <<>>

\* the resolver has returned `text` through its fast path, on branch main
ResolverReturned ==
  /\ branch = Main
  /\ probe_succeeds = TRUE
  /\ head_is_ancestor = TRUE
  /\ history_len = 1
  /\ divergence = 2
  /\ other_first = FALSE
  /\ diff_output = text
  /\ diff_succeeds = TRUE
  /\ g_pc = "done"
  /\ remote_branch = <<REMOTE \o <<SLASH>> \o Main>>
  /\ probe_ran = TRUE
  /\ base_commit = <<RemoteHead>>
  /\ diff_base = <<RemoteHead>>
  /\ PipelineIdle

\* the locals of workspace_clippy before its status loop
MemoFresh ==
  /\ error_line = <<>>
  /\ git_statuses = <<>>
  /\ next_status = 1
  /\ package_paths = EmptyMap
  /\ no_package_dirs = {}
  /\ no_package_paths = {}

\* the locals of workspace_clippy that the reducer and the check loop set
ReducerFresh ==
  /\ internal_crate_path_map = EmptyMap
  /\ package_cargos = EmptyMap
  /\ changed_package_names = {}
  /\ top_level_changed_package_names = {}
  /\ queue = <<>>
  /\ analyzed_package_names = {}
  /\ target = "None"
  /\ runner_calls = <<>>
  /\ runner_status = <<>>
  /\ result = "Running"

\* workspace_clippy from its diff text on, over every diff text, with the
\* root manifest and a's manifest present or not
Init ==
  /\ manifest_dirs \in {D \cup {<<"b">>, <<"c">>} : D \in SUBSET {RootDir, <<"a">>}}
  /\ root_is_package \in BOOLEAN
  /\ root_is_package => RootDir \in manifest_dirs
  /\ cargo_deps \in DiffGraphs
  /\ workspace_path_deps = {"a", "b", "c"}
  /\ pc = "parse"
  /\ \E n \in 0..MaxRecords : \E ls \in DiffLineSeqs(n) :
       text = JoinLines(ls) /\ TreeMatchesDiff(Range(ls))
  /\ ResolverReturned
  /\ MemoFresh
  /\ ReducerFresh

Next == ParseStatuses \/ StatusStep \/ UnownedCheck \/ LoadManifests \/ Analyze \/ CheckStep

Spec == Init /\ [][Next]_vars

\* The dependency closure reducer on its own: the state in which
\* workspace_clippy leaves the status loop without an unowned file, for every
\* set of changed packages and every dependency graph over the packages.  A
\* manifest that is never read has no dependencies here (they would not matter).
InitReducer ==
  /\ manifest_dirs \in {{RootDir} \cup PackageDirs, {RootDir} \cup (PackageDirs \ {<<"c">>})}
  /\ root_is_package = FALSE
  /\ workspace_path_deps \in {{}, {"c"}, {"a", "b", "c"}}
  /\ \E changed \in SUBSET (manifest_dirs \ {RootDir}) :
       /\ cargo_deps \in [PackageDirs \cup {RootDir} -> DepSets]
       /\ \A d \in PackageDirs \cup {RootDir} :
            (d \notin changed /\ (d \notin manifest_dirs \/ PackageName(d) \notin workspace_path_deps))
              => cargo_deps[d] = {}
       /\ package_paths = [d \in changed |-> d]
  /\ pc = "load"
  /\ text = <<>>
  /\ ResolverReturned
  /\ error_line = <<>>
  /\ git_statuses = <<>>
  /\ next_status = 1
  /\ no_package_dirs = {}
  /\ no_package_paths = {}
  /\ ReducerFresh

NextReducer == LoadManifests \/ Analyze \/ CheckStep

SpecReducer == InitReducer /\ [][NextReducer]_vars

\* the reducer with its `while !queue.is_empty()` loop running on: an iteration
\* that can be taken is taken
SpecReducerLive == InitReducer /\ [][NextReducer]_vars /\ WF_vars(Analyze)

\* The whole run from the call of the resolver, over every branch name, probe
\* and ancestry outcome, history and divergence point, with a few diffs, in a
\* workspace where the directory b holds a manifest or not.
InitResolver ==
  /\ manifest_dirs \in {{RootDir} \cup PackageDirs, {RootDir} \cup (PackageDirs \ {<<"b">>})}
  /\ root_is_package = FALSE
  /\ cargo_deps = GraphAB
  /\ workspace_path_deps = {"a", "b", "c"}
  /\ branch \in Branches
  /\ probe_succeeds \in BOOLEAN
  /\ IsRemoteName(branch) => probe_succeeds
  /\ head_is_ancestor \in BOOLEAN
  /\ history_len \in 1..MaxHistory
  /\ divergence \in 1..(history_len + 1)
  /\ other_first \in BOOLEAN
  /\ divergence > history_len => ~other_first
  /\ diff_output \in ResolverDiffs
  /\ diff_succeeds \in BOOLEAN
  /\ ~diff_succeeds => diff_output = <<>>
  /\ g_pc = "detect"
  /\ remote_branch = <<>>
  /\ probe_ran = FALSE
  /\ base_commit = <<>>
  /\ diff_base = <<>>
  /\ PipelineIdle
  /\ pc = "resolve"
  /\ text = <<>>
  /\ MemoFresh
  /\ ReducerFresh

NextResolver ==
  \/ DetectRemote \/ FastPath \/ SpawnScan
  \/ RevListStep \/ XargsStep \/ ChildWrite
  \/ ScanLine \/ KillRevList \/ KillBranchContains \/ DrainLine
  \/ ResolveBaseCommit
  \/ Next

SpecResolver == InitResolver /\ [][NextResolver]_vars

\* ------------------------------------------- the dependency graph on disk
\* The claims about the reducer are stated over the manifests themselves, not
\* over what the traversal has loaded.
ChangedNames == {PackageName(p) : p \in Range(package_paths)}

InternalNames == ChangedNames \cup workspace_path_deps

DirOfName(n) == IF n = "root" THEN RootDir ELSE <<n>>

DeclaredDeps(n) == cargo_deps[DirOfName(n)]

\* S and the internal packages reachable from S through declared dependencies
RECURSIVE Closure(_)
Closure(S) ==
  LET next == S \cup {d \in UNION {DeclaredDeps(n) : n \in S} : d \in InternalNames}
  IN IF next = S THEN S ELSE Closure(next)

\* the direct and transitive dependencies of the packages of S
DependenciesOf(S) == UNION {DeclaredDeps(n) : n \in Closure(S)}

\* --------------------------------------------------------------- claims
\* no internal package is among its own direct or transitive dependencies
Acyclic == \A n \in InternalNames : n \notin DependenciesOf({n})

\* C1 (as stated): when A declares a dependency on B and both are changed, the
\* target set contains A and does not contain B, whatever the dequeue order.
\* Stated here for the acyclic graphs only, where it already fails (a third
\* changed package may declare A).
C1_ContainsDependentExcludesDependency ==
  (target = "Packages" /\ Acyclic) =>
    \A A, B \in ChangedNames :
      (A # B /\ B \in DeclaredDeps(A)) =>
        (A \in top_level_changed_package_names /\ B \notin top_level_changed_package_names)

\* C1 (amended): when A declares a dependency on B and both are changed, the
\* target set does not contain B, and it contains A exactly when no package
\* reached by the traversal (a changed package, or an internal package reachable
\* from one) declares a dependency on A; this holds for every dequeue order.
C1_ExcludesDependencyKeepsUndeclared ==
  target = "Packages" =>
    \A A, B \in ChangedNames :
      (A # B /\ B \in DeclaredDeps(A)) =>
        /\ B \notin top_level_changed_package_names
        /\ A \in top_level_changed_package_names <=> A \notin DependenciesOf(ChangedNames)

\* C1 witness: a and b changed, a declares b, and the traversal has ended with
\* the target set {a}.
C1_Witness ==
  /\ target = "Packages"
  /\ {"a", "b"} \subseteq ChangedNames
  /\ "b" \in DeclaredDeps("a")
  /\ top_level_changed_package_names = {"a"}

\* C2: the target set is exactly the set of changed packages that are not a
\* direct or transitive (through internal packages) dependency of another
\* changed package, whatever the queue order.
C2_TargetsAreChangedNotDependedOnByOtherChanged ==
  target = "Packages" =>
    top_level_changed_package_names =
      {q \in ChangedNames : \A s \in ChangedNames \ {q} : q \notin DependenciesOf({s})}

\* C3: when the reducer finishes, every changed package is in the target set or
\* reachable through dependency edges from a member of it, cycles included.
C3_TargetsCoverEveryChangedPackage ==
  target = "Packages" =>
    \A c \in ChangedNames :
      \/ c \in top_level_changed_package_names
      \/ \E t \in top_level_changed_package_names : c \in DependenciesOf({t})

\* the paths a change record carries
PathsOf(st) == IF st.kind = "Renamed" THEN {st.old, st.new} ELSE {st.file}

\* the records that name the workspace-level manifest or lockfile
TriggerRecords ==
  {i \in 1..Len(git_statuses) : PathsOf(git_statuses[i]) \cap {CargoToml, CargoLock} # {}}

\* the status loop has been left (by its end or by a return)
LoopLeft == pc \in {"load", "bfs", "check", "done"} /\ result # "ParseError"

\* C4: if any change record names the workspace manifest or lockfile (as its
\* path, or as the old or new path of a rename), the result is the
\* whole-workspace run, wherever the record stands and whatever else changed;
\* unowned files seen before it produce no MembershipError.
C4_WorkspaceFileForcesWholeWorkspace ==
  (LoopLeft /\ TriggerRecords # {}) =>
    /\ target = WholeWorkspace
    /\ runner_calls = <<WholeWorkspace>>
    /\ result \in {"Ok", "CheckFailed"}

\* C4 witness: a diff of two records, the first an unowned source file, the
\* second naming the lockfile, has ended in the whole-workspace run.
C4_Witness ==
  /\ LoopLeft
  /\ TriggerRecords = {2}
  /\ no_package_paths # {}
  /\ target = WholeWorkspace

\* C5: with an explicit target set, no package is checked twice and none outside
\* the set, and once every check has succeeded each package of the set has been
\* checked exactly once; with the whole-workspace result the check-runner has
\* run exactly once, without a package name.
C5_RunnerCallsMatchResult ==
  /\ target = "Packages" =>
       /\ Range(runner_calls) \subseteq top_level_changed_package_names
       /\ Cardinality(Range(runner_calls)) = Len(runner_calls)
       /\ (pc = "done" /\ result = "Ok") =>
            Range(runner_calls) = top_level_changed_package_names
  /\ target = WholeWorkspace => runner_calls = <<WholeWorkspace>>
  /\ target = "None" => runner_calls = <<>>

\* C5 witness: a run that ended Ok after checking a target set of two packages.
C5_Witness ==
  /\ pc = "done"
  /\ result = "Ok"
  /\ target = "Packages"
  /\ Cardinality(top_level_changed_package_names) = 2
  /\ Len(runner_calls) = 2

\* the history scan pipeline has been spawned
ScanStarted == rev_list # "none"

\* the number of commits xargs has taken from rev-list so far
Scanned == rev_list_next - 1 - Len(rev_list_stdout)

\* C6: when a remote branch was identified and its head is an ancestor of HEAD,
\* the base commit (the one the diff is taken against) is that head and the
\* history scan is never started; the scan starts only without such a base.
C6_FastPathReturnsRemoteHead ==
  (g_pc \notin {"detect", "fast"} /\ remote_branch # <<>> /\ head_is_ancestor) =>
    /\ ~ScanStarted
    /\ base_commit = <<RemoteHead>>
    /\ g_pc = "done" => (diff_base = <<RemoteHead>> /\ result # "NoBaseCommit")

\* C6 witness: the resolver has returned through the fast path.
C6_Witness ==
  /\ g_pc = "done"
  /\ remote_branch # <<>>
  /\ head_is_ancestor
  /\ diff_base = <<RemoteHead>>
  /\ ~ScanStarted

\* C7: the base commit that the history scan returns is the first commit of the
\* streamed first-parent history that another branch contains, for every
\* interleaving of rev-list, xargs and the reader.
C7_ScanReturnsFirstForeignCommit ==
  (ScanStarted /\ g_pc \in {"resolve", "done"}) =>
    base_commit = IF divergence <= history_len THEN <<divergence>> ELSE <<>>

\* C8: the reader that takes the first line naming another branch goes straight
\* to the two kills and takes no line before them; once the scan is left, by the
\* early stop or at the end of the output, neither process is running; and after
\* xargs is cancelled no further commit of the history is scanned.
C8_ScanCancelsBothProcesses ==
  /\ [](( ScanStarted /\ g_pc \in {"loop2", "resolve", "done"}) =>
          (rev_list # "running" /\ branch_contains # "running"))
  /\ [][/\ ( /\ g_pc = "loop1"
             /\ branch_contains_stdout # <<>>
             /\ Head(branch_contains_stdout).kind = "other"
             /\ branch_contains_stdout' = Tail(branch_contains_stdout) )
             => g_pc' = "kill_rev_list"
        /\ g_pc \in {"kill_rev_list", "kill_branch_contains"}
             => Len(branch_contains_stdout') >= Len(branch_contains_stdout)
        /\ branch_contains \in {"killed", "exited"} => Scanned' = Scanned]_vars

\* C8 witness: the scan stopped early, both processes were killed, and part of
\* the history was never scanned.
C8_Witness ==
  /\ g_pc = "done"
  /\ rev_list = "killed"
  /\ branch_contains = "killed"
  /\ divergence <= history_len
  /\ Scanned < history_len

\* C9: without a base commit from the fast path and from the scan (as when no
\* commit of the branch is in another branch) the run fails with the
\* no-base-commit error, and no diff is queried, nothing is parsed, no
\* membership is looked up and no check is run.
C9_NoBaseCommitFailsTheRun ==
  /\ (g_pc = "done" /\ base_commit = <<>>) =>
       /\ result = "NoBaseCommit"
       /\ pc = "done"
       /\ diff_base = <<>>
       /\ text = <<>>
       /\ git_statuses = <<>>
       /\ package_paths = EmptyMap
       /\ no_package_dirs = {}
       /\ target = "None"
       /\ runner_calls = <<>>
  /\ (g_pc = "done" /\ ~(remote_branch # <<>> /\ head_is_ancestor)
        /\ divergence > history_len) => result = "NoBaseCommit"

\* C9 witness: the scan ran to the end of a history that no other branch
\* contains, and the run has failed.
C9_Witness ==
  /\ result = "NoBaseCommit"
  /\ ScanStarted
  /\ branch_contains = "exited"
  /\ divergence > history_len

\* --------------------------------------------- parse_git_statuses alone
\* the paths, status codes and lines of the texts given to the parser
PathOld == <<"o", "l", "d", ".", "t", "x", "t">>
PathNew == <<"n", ".", "r", "s">>
ParserPaths == {PathOld, PathNew}

PathCodes == {<<"A">>, <<"D">>, <<"M">>, <<"M", "M">>, <<"A", "M">>, <<"T">>,
              <<"X">>, <<"C", "1", "0", "0">>}
RenameCodes == {<<"R">>, <<"R", "1", "0", "0">>, <<"R", "0", "7", "5">>}

\* records whose paths are one byte long, and a path followed by a space
PathA == <<"a">>
PathB == <<"b">>
ShortPathLines ==
  {<<"R", TAB>> \o PathA \o <<TAB>> \o PathB,
   <<"R", SP, SP>> \o PathA \o Arrow \o PathB,
   <<"M", TAB>> \o PathA,
   <<"A", "M", TAB>> \o PathOld \o <<SP>>}

\* `<status>\t<path>`, `<status>\t<old>\t<new>`, `R  <old> -> <new>`, and
\* lines too short to be a record
ParserLines ==
  {c \o <<TAB>> \o p : c \in PathCodes, p \in ParserPaths}
  \cup {c \o <<TAB>> \o o \o <<TAB>> \o n : c \in RenameCodes, o \in ParserPaths, n \in ParserPaths}
  \cup {<<"R", SP, SP>> \o o \o Arrow \o n : o \in ParserPaths, n \in ParserPaths}
  \cup {<<>>, <<"M">>}
  \cup ShortPathLines

\* the texts of n lines, as sequences of lines
ParserLineSeqs(n) == [1..n -> ParserLines]

\* parse_git_statuses applied to every text
InitParser ==
  /\ manifest_dirs = {RootDir} \cup PackageDirs
  /\ root_is_package = FALSE
  /\ cargo_deps = GraphAB
  /\ workspace_path_deps = {"a", "b", "c"}
  /\ pc = "parse"
  /\ \E n \in 0..MaxRecords : \E ls \in ParserLineSeqs(n) : text = JoinLines(ls)
  /\ ResolverReturned
  /\ MemoFresh
  /\ ReducerFresh

NextParser == ParseStatuses

SpecParser == InitParser /\ [][NextParser]_vars

\* C10: a rename line in the tab-separated triple format whose old path equals
\* its new path (such as R100<TAB>old.txt<TAB>old.txt) yields exactly one
\* record, Modified for that path.
C10_IdenticalRenameIsModified ==
  \A c \in RenameCodes, p \in ParserPaths :
    (pc # "parse" /\ text = c \o <<TAB>> \o p \o <<TAB>> \o p) =>
      (result # "ParseError" /\ git_statuses = <<Modified(p)>>)

\* every path of the texts given to the parser
AllParserPaths == ParserPaths \cup {PathA, PathB}

\* C11: a line whose status begins with R (with or without a similarity suffix)
\* and that carries two distinct paths, as the tab-separated triple or joined by
\* " -> ", yields one Renamed record whose old and new fields are exactly the
\* old and the new path.
C11_RenameCarriesBothPaths ==
  \A c \in RenameCodes, o \in AllParserPaths, n \in AllParserPaths :
    ( /\ pc # "parse"
      /\ o # n
      /\ text \in {c \o <<TAB>> \o o \o <<TAB>> \o n, c \o <<SP, SP>> \o o \o Arrow \o n} )
      => (result # "ParseError" /\ git_statuses = <<Renamed(o, n)>>)

\* the supported status codes that are followed by one path
SupportedPathCodes == {<<"A">>, <<"D">>, <<"M">>, <<"M", "M">>, <<"A", "M">>, <<"T">>}

\* the lines of the documented formats with a supported status code
SupportedLines ==
  {c \o <<TAB>> \o p \o pad : c \in SupportedPathCodes, p \in AllParserPaths, pad \in {<<>>, <<SP>>}}
  \cup {c \o <<TAB>> \o o \o <<TAB>> \o n :
          c \in RenameCodes, o \in AllParserPaths, n \in AllParserPaths}
  \cup {<<"R", SP, SP>> \o o \o Arrow \o n : o \in AllParserPaths, n \in AllParserPaths}

\* the status code in front of a line: what precedes its first tab or space
CodeOf(line) ==
  LET seps == {i \in 1..Len(line) : line[i] \in {TAB, SP}}
  IN IF seps = {} THEN line
     ELSE SubSeq(line, 1, (CHOOSE i \in seps : \A j \in seps : i <= j) - 1)

\* the kinds of record that a status code stands for
KindsOf(code) ==
  IF code = <<"A">> THEN {"Added"}
  ELSE IF code = <<"D">> THEN {"Deleted"}
  ELSE IF code = <<"T">> THEN {"FileTypeChanged"}
  ELSE IF code \in {<<"M">>, <<"M", "M">>, <<"A", "M">>} THEN {"Modified"}
  ELSE IF code # <<>> /\ code[1] = "R" THEN {"Renamed", "Modified"}
  ELSE {}

NonBlank(lines) == SelectSeq(lines, LAMBDA l : l # <<>>)

\* C12: a text all of whose lines are blank or of a documented format with a
\* supported status code parses without an error into exactly one record per
\* non-blank line, in line order, whatever the length of the paths.  (That the
\* same text parses to the same records again is built into parse_git_statuses
\* being an operator.)
C12_SupportedTextParsesLineByLine ==
  LET lines == SplitLines(text)
      records == NonBlank(lines)
  IN ( /\ pc # "parse"
       /\ \A i \in 1..Len(lines) : lines[i] = <<>> \/ lines[i] \in SupportedLines )
       => /\ result # "ParseError"
          /\ Len(git_statuses) = Len(records)
          /\ \A i \in 1..Len(records) : git_statuses[i].kind \in KindsOf(CodeOf(records[i]))

\* the lines of the format `<status>\t<path>` with an unsupported status code
UnsupportedLines ==
  {c \o <<TAB>> \o p : c \in PathCodes \ SupportedPathCodes, p \in AllParserPaths}

\* C13: when a line of the text has a status code outside {A, D, M, MM, AM, T,
\* R*}, parsing fails with the unsupported-status error, the error names a line
\* of the text with such a status code, and no record is returned.
C13_UnsupportedStatusFailsNamingTheLine ==
  LET lines == SplitLines(text)
  IN (pc # "parse" /\ \E i \in 1..Len(lines) : lines[i] \in UnsupportedLines)
       => /\ result = "ParseError"
          /\ pc = "done"
          /\ git_statuses = <<>>
          /\ error_line \in UnsupportedLines
          /\ \E i \in 1..Len(lines) : lines[i] = error_line

\* the record of a status code followed by one path
RecordOf(code, p) ==
  IF code = <<"A">> THEN Added(p)
  ELSE IF code = <<"D">> THEN Deleted(p)
  ELSE IF code = <<"T">> THEN FileTypeChanged(p)
  ELSE Modified(p)

\* C14: in a text that parses into one record per line, a line `A<TAB>path`
\* yields Added, `D` Deleted, each of `M`, `MM`, `AM` Modified and `T`
\* FileTypeChanged, each with exactly the path of the line, trimmed.
C14_StatusMapping ==
  LET lines == SplitLines(text)
  IN (pc # "parse" /\ result # "ParseError" /\ Len(git_statuses) = Len(lines)) =>
       \A i \in 1..Len(lines) :
         \A c \in SupportedPathCodes, p \in AllParserPaths, pad \in {<<>>, <<SP>>} :
           lines[i] = c \o <<TAB>> \o p \o pad => git_statuses[i] = RecordOf(c, p)

\* C14 witness: `MM<TAB>old.txt` and `T<TAB>n.rs` have been parsed into a
\* Modified and a FileTypeChanged record.
C14_Witness ==
  /\ pc # "parse"
  /\ text = <<"M", "M", TAB>> \o PathOld \o <<NL>> \o <<"T", TAB>> \o PathNew
  /\ git_statuses = <<Modified(PathOld), FileTypeChanged(PathNew)>>

\* ------------------------------------------------ the tree and the records
\* the directories above a path: those of a relative path end with the current
\* directory "", those of an absolute path with "/"
Ancestors(p) ==
  LET cuts == {SubSeq(p, 1, k - 1) : k \in {i \in 2..Len(p) : p[i] = SLASH}}
  IN IF ~HasParent(p) THEN {}
     ELSE IF p[1] = SLASH THEN cuts \cup {<<SLASH>>}
     ELSE cuts \cup {RootDir}

\* the manifests that a file directly in directory d would be looked up in
ManifestsAt(d) == (Ancestors(d) \cup {d}) \cap manifest_dirs

\* the ancestors of p that hold a manifest
ManifestAncestors(p) == Ancestors(p) \cap manifest_dirs

\* the nearest ancestor of p that holds a manifest
NearestManifest(p) ==
  CHOOSE d \in ManifestAncestors(p) : \A e \in ManifestAncestors(p) : Len(e) <= Len(d)

\* eligibility as the specification words it: the file name is the manifest
\* file name, or the extension is the source-file extension
SpecEligible(p) == FileName(p) = CargoToml \/ Extension(p) = <<"r", "s">>

\* the eligible paths of a set that have no manifest in any ancestor
UnownedEligible(paths) == {p \in paths : SpecEligible(p) /\ ManifestAncestors(p) = {}}

\* the paths of every change record, and of the records the loop has passed
AllPaths == UNION {PathsOf(git_statuses[i]) : i \in 1..Len(git_statuses)}
ProcessedPaths == UNION {PathsOf(git_statuses[i]) : i \in 1..(next_status - 1)}

\* C15: an eligible changed file with no ancestor manifest is recorded as
\* unowned and the pass goes on; the run fails with the MembershipError only
\* after every record has been processed, it does so whenever an eligible
\* changed file is unowned (and no record names the workspace manifest or
\* lockfile), and the error lists exactly the unowned eligible paths.
C15_UnownedFilesFailTogetherAfterThePass ==
  /\ pc = "statuses" =>
       (result = "Running" /\ no_package_paths = UnownedEligible(ProcessedPaths))
  /\ result = "MembershipError" =>
       /\ next_status > Len(git_statuses)
       /\ no_package_paths # {}
       /\ no_package_paths = UnownedEligible(AllPaths)
       /\ runner_calls = <<>>
  /\ (LoopLeft /\ TriggerRecords = {} /\ UnownedEligible(AllPaths) # {}) =>
       result = "MembershipError"

\* the outcome of the lookups for path p that memo tables m record: ignored,
\* unowned, or the owning package directory
Outcome(m, p) ==
  IF ~Eligible(p) THEN "ignored"
  ELSE IF p \in m.no_package_paths THEN "unowned"
  ELSE m.package_paths[Parent(p)]

\* C16: over a fixed tree, after any sequence of membership walks the outcome
\* recorded for each file that has been looked up is the outcome of a walk for
\* that file started with empty memo tables (so a second walk over the same
\* files changes no owner and no unowned file), and every memoized directory
\* carries what the tree says: its nearest manifest, or that it has none.
C16_MemoizationIsPureOptimization ==
  pc = "statuses" =>
    /\ \A p \in ProcessedPaths :
         Outcome(Memo, p) = Outcome(get_cargo_package_of_file(p, EmptyMap, {}, {}), p)
    /\ \A d \in DOMAIN package_paths :
         /\ package_paths[d] \in ManifestsAt(d)
         /\ \A e \in ManifestsAt(d) : Len(e) <= Len(package_paths[d])
    /\ \A d \in no_package_dirs : ManifestsAt(d) = {}

\* C16 witness: a/s/l.rs has been looked up twice, the second walk stopping at
\* the memoized directory a/s, and package a owns the file as before.
C16_Witness ==
  /\ pc = "statuses"
  /\ git_statuses = <<Modified(FileA), Modified(FileA)>>
  /\ next_status = 3
  /\ DOMAIN package_paths = {<<"a", "/", "s">>, <<"a">>}
  /\ package_paths[<<"a", "/", "s">>] = <<"a">>

\* C17: a changed file whose file name is the manifest file name (a package's
\* own manifest such as a/Cargo.toml) is resolved to its owning package, and
\* that package is among the changed packages.
C17_ManifestFileCountsItsPackage ==
  target = "Packages" =>
    \A p \in AllPaths :
      (FileName(p) = CargoToml /\ ManifestAncestors(p) # {}) =>
        PackageName(NearestManifest(p)) \in changed_package_names

\* the change records are parsed and every path of theirs is ineligible: neither
\* named like the manifest nor with the source-file extension
OnlyIneligibleFiles ==
  /\ pc # "parse"
  /\ result # "ParseError"
  /\ \A p \in AllPaths : ~SpecEligible(p)

\* a lookup for an ineligible file of the diffs leaves the three tables as they are
IneligibleLookupChangesNothing ==
  \A p \in DiffFiles :
    ~SpecEligible(p) =>
      get_cargo_package_of_file(p, package_paths, no_package_dirs, no_package_paths) = Memo

\* C18 (as stated): a lookup for an ineligible file leaves the package map, the
\* no-package directories and the unowned files unchanged, and a change set of
\* only such files yields the empty target set and no MembershipError.
C18_IneligibleOnlyYieldsEmptyTargetSet ==
  /\ IneligibleLookupChangesNothing
  /\ (OnlyIneligibleFiles /\ git_statuses # <<>> /\ pc = "done") =>
       /\ result = "Ok"
       /\ target = "Packages"
       /\ top_level_changed_package_names = {}

\* C18 (amended): a lookup for an ineligible file leaves the three tables
\* unchanged; a change set of only such files, none of them the workspace
\* lockfile, leaves them empty and never ends in a MembershipError, no check is
\* run, and the run ends Ok with the empty target set when the workspace root
\* manifest can be read (with the manifest error otherwise).
C18_IneligibleOnlyLooksNothingUp ==
  /\ IneligibleLookupChangesNothing
  /\ (OnlyIneligibleFiles /\ git_statuses # <<>> /\ TriggerRecords = {}) =>
       /\ package_paths = EmptyMap
       /\ no_package_dirs = {}
       /\ no_package_paths = {}
       /\ runner_calls = <<>>
       /\ pc = "done" =>
            IF RootDir \in manifest_dirs
            THEN result = "Ok" /\ target = "Packages" /\ top_level_changed_package_names = {}
            ELSE result = "ManifestError" /\ target = "None"

\* C18 witness: the diff `M<TAB>n/r.md` has ended Ok with the empty target set.
C18_Witness ==
  /\ pc = "done"
  /\ git_statuses = <<Modified(FileDoc)>>
  /\ result = "Ok"
  /\ target = "Packages"
  /\ top_level_changed_package_names = {}
  /\ package_paths = EmptyMap

\* the diff has no changed file, or none that belongs to a package or names the
\* workspace manifest or lockfile
ZeroChanges == OnlyIneligibleFiles /\ TriggerRecords = {}

\* C19 (as stated): with the base commit resolved and zero changed files (or
\* zero changed packages) the run succeeds with the empty target set and the
\* check-runner is never invoked.
C19_ZeroChangesSucceed ==
  /\ ZeroChanges => runner_calls = <<>>
  /\ (ZeroChanges /\ pc = "done") =>
       /\ result = "Ok"
       /\ target = "Packages"
       /\ top_level_changed_package_names = {}

\* C19 (amended): with the base commit resolved and zero changed files (or zero
\* changed packages) the check-runner is never invoked and no membership, path
\* or check error arises; the run succeeds with the empty target set provided
\* the workspace root manifest can be read, and fails with the manifest error
\* when it cannot.
C19_ZeroChangesSucceedWithReadableWorkspace ==
  /\ ZeroChanges => (runner_calls = <<>> /\ result \in {"Running", "Ok", "ManifestError"})
  /\ (ZeroChanges /\ pc = "done") =>
       /\ result = "Ok" <=> RootDir \in manifest_dirs
       /\ result = "Ok" => (target = "Packages" /\ top_level_changed_package_names = {})

\* C19 witness: the empty diff has ended Ok with the empty target set.
C19_Witness ==
  /\ pc = "done"
  /\ text = <<>>
  /\ git_statuses = <<>>
  /\ result = "Ok"
  /\ target = "Packages"
  /\ top_level_changed_package_names = {}
  /\ runner_calls = <<>>

\* C20: a failing external command fails the whole run; in particular, when the
\* name-status diff against the resolved base commit exits with failure, the
\* run fails instead of going on with an empty diff: when the run is over its
\* result is an error, and no target set has been computed.
C20_FailedDiffFailsTheRun ==
  (g_pc = "done" /\ diff_base # <<>> /\ ~diff_succeeds /\ pc = "done") =>
    /\ result # "Ok"
    /\ target = "None"

\* C21: when the check-runner fails, for a target package or for the whole
\* workspace, the run fails at once: the failing invocation is the last one,
\* the result is the check failure and the run is over, with the target
\* packages that had not been reached left unchecked.
C21_RunnerFailureFailsTheRun ==
  /\ Len(runner_status) = Len(runner_calls)
  /\ \A i \in 1..Len(runner_status) :
       ~runner_status[i] =>
         /\ i = Len(runner_calls)
         /\ result = "CheckFailed"
         /\ pc = "done"
  /\ result = "CheckFailed" => (runner_status # <<>> /\ ~runner_status[Len(runner_status)])

\* C21 witness: of a target set of two packages the first check has failed and
\* the run is over with the other package unchecked.
C21_Witness ==
  /\ pc = "done"
  /\ target = "Packages"
  /\ Cardinality(top_level_changed_package_names) = 2
  /\ runner_status = <<FALSE>>
  /\ result = "CheckFailed"
  /\ Cardinality(Unchecked) = 1

\* the directories from the parent of p up to its ancestor d
UpTo(p, d) == {e \in Ancestors(p) : Len(e) >= Len(d)}

\* the nearest ancestor-or-self of directory d that holds a manifest
NearestManifestAt(d) ==
  CHOOSE m \in ManifestsAt(d) : \A e \in ManifestsAt(d) : Len(e) <= Len(m)

\* C22: a walk that stops at a directory D holding a manifest (or at a
\* directory memoized to D) maps every directory it visited, from the file's
\* parent up to D, to D; and in every reachable state each entry dir -> pkg of
\* the package map has pkg equal to the nearest ancestor-or-self of dir that
\* holds a manifest.
C22_WalkWritesBackNearestManifest ==
  /\ \A p \in ProcessedPaths :
       (Eligible(p) /\ ManifestAncestors(p) # {}) =>
         \A e \in UpTo(p, NearestManifest(p)) :
           /\ e \in DOMAIN package_paths
           /\ package_paths[e] = NearestManifest(p)
  /\ \A d \in DOMAIN package_paths :
       /\ ManifestsAt(d) # {}
       /\ package_paths[d] = NearestManifestAt(d)

\* C22 witness: the walk from a/s/l.rs has stopped at a, which holds a manifest,
\* and both a/s and a are mapped to a.
C22_Witness ==
  /\ pc = "statuses"
  /\ git_statuses = <<Modified(FileA)>>
  /\ next_status = 2
  /\ package_paths = [d \in {<<"a", "/", "s">>, <<"a">>} |-> <<"a">>]

\* the walk from file f reaches the no-package directory e: e is above f and no
\* directory below it on the way holds a manifest or is memoized
Reaches(f, e) ==
  /\ e \in Ancestors(f) \cap no_package_dirs
  /\ \A d \in UpTo(f, e) \ {e} :
       d \notin no_package_dirs /\ d \notin DOMAIN package_paths /\ d \notin manifest_dirs

\* C23: the no-package set is upward closed: every ancestor of a directory in
\* it, and of an unowned file, is in it; and a walk that reaches a no-package
\* directory stops there: it marks the directories it visited, records its file
\* as unowned, leaves the package map alone and probes no directory at or above
\* the one it stopped at.
C23_NoPackageMarkingIsUpwardClosed ==
  /\ \A d \in no_package_dirs : Ancestors(d) \subseteq no_package_dirs
  /\ \A p \in no_package_paths : Ancestors(p) \subseteq no_package_dirs
  /\ \A f \in DiffFiles, e \in no_package_dirs :
       (Eligible(f) /\ Reaches(f, e)) =>
         LET m == get_cargo_package_of_file(f, package_paths, no_package_dirs,
                                            no_package_paths)
         IN /\ m.package_paths = package_paths
            /\ m.no_package_dirs = no_package_dirs \cup UpTo(f, e)
            /\ m.no_package_paths = no_package_paths \cup {f}
            /\ Probes(f, package_paths, no_package_dirs) = UpTo(f, e) \ {e}

\* C23 witness: o/x.rs was found unowned, marking o and the current directory;
\* the walk from o/t/y.rs then stopped at o and marked o/t.
C23_Witness ==
  /\ pc = "statuses"
  /\ git_statuses = <<Modified(FileO), Modified(FileO2)>>
  /\ next_status = 3
  /\ no_package_dirs = {<<"o">>, RootDir, <<"o", "/", "t">>}
  /\ no_package_paths = {FileO, FileO2}
  /\ package_paths = EmptyMap

\* a changed package lies on a dependency cycle, or declares itself
ChangedOnCycle == \E n \in ChangedNames : n \in DependenciesOf({n})

\* C24: the breadth-first traversal terminates on every dependency graph, with
\* cycles, self-dependencies and packages declared by several others: whenever
\* the traversal is running, it is eventually over.
C24_TraversalTerminates == (pc = "bfs") ~> (pc # "bfs")

\* C24 witness: the traversal of a graph in which a changed package lies on a
\* cycle, and in which b is declared by both a and c, is over, every one of the
\* three having been analyzed.
C24_Witness ==
  /\ pc \in {"check", "done"}
  /\ queue = <<>>
  /\ ChangedOnCycle
  /\ "b" \in DeclaredDeps("a") \cap DeclaredDeps("c")
  /\ analyzed_package_names = {"a", "b", "c"}

\* C25: external dependencies are never expanded: an iteration enqueues only
\* declared dependencies that are internal (a changed package, or a workspace
\* dependency with a path) and not analyzed yet; so every name in the queue,
\* every analyzed name and every manifest read belongs to an internal package,
\* and the traversal never fails for want of a path to a crate.
C25_ExternalDependenciesNeverExpanded ==
  /\ [](/\ Range(queue) \subseteq InternalNames
        /\ analyzed_package_names \subseteq InternalNames
        /\ DOMAIN package_cargos \subseteq InternalNames
        /\ result # "PathError")
  /\ [][(pc = "bfs" /\ queue # <<>>) =>
          \A i \in Len(queue)..Len(queue') :
            /\ queue'[i] \in InternalNames \cap DeclaredDeps(Head(queue))
            /\ queue'[i] \notin analyzed_package_names']_vars

\* C25 witness: the changed package a declares the external crate serde and c,
\* which has no path in the workspace; the traversal is over and has analyzed a alone.
C25_Witness ==
  /\ pc \in {"check", "done"}
  /\ workspace_path_deps = {}
  /\ ChangedNames = {"a"}
  /\ DeclaredDeps("a") = {"c", "serde"}
  /\ analyzed_package_names = {"a"}
  /\ DOMAIN package_cargos = {"a"}
  /\ result # "PathError"

\* the branch name begins with the remote name followed by `/`
BeginsWithRemote(b) ==
  /\ Len(b) >= Len(REMOTE) + 1
  /\ SubSeq(b, 1, Len(REMOTE) + 1) = REMOTE \o <<SLASH>>

\* C26: when the current branch name begins with the remote name followed by
\* `/`, the branch itself is the remote branch and the existence probe is not
\* run; otherwise the probe is run, and `<remote>/<branch>` is the remote
\* branch exactly when the probe exits with status zero.
C26_RemoteDetection ==
  g_pc # "detect" =>
    IF BeginsWithRemote(branch)
    THEN remote_branch = <<branch>> /\ ~probe_ran
    ELSE /\ probe_ran
         /\ remote_branch = IF probe_succeeds
                            THEN <<REMOTE \o <<SLASH>> \o branch>> ELSE <<>>

\* the errors of the impact analysis
AnalysisFailures ==
  {"NoBaseCommit", "ParseError", "MembershipError", "ManifestError", "PathError"}

\* the impact analysis is complete: the diff is parsed, and either a record has
\* forced the whole-workspace result or the pass over the records and the
\* dependency traversal are over and the target set is computed
AnalysisComplete ==
  /\ g_pc = "done"
  /\ diff_base # <<>>
  /\ pc \in {"check", "done"}
  /\ error_line = <<>>
  /\ \/ target = WholeWorkspace /\ TriggerRecords # {}
     \/ /\ target = "Packages"
        /\ next_status > Len(git_statuses)
        /\ no_package_paths = {}
        /\ queue = <<>>

\* C27: the check-runner is never invoked before the impact analysis is
\* complete, and when the analysis fails (no base commit, parse error, unowned
\* files, manifest error, missing package path) it is invoked zero times.
C27_NoCheckWithoutCompleteAnalysis ==
  /\ runner_calls # <<>> => AnalysisComplete
  /\ result \in AnalysisFailures => runner_calls = <<>>
  /\ (no_package_paths # {} /\ TriggerRecords = {}) => runner_calls = <<>>

\* C27 witness: package a was found changed and another changed file unowned;
\* the run has failed with the MembershipError and nothing has been checked.
C27_Witness ==
  /\ pc = "done"
  /\ result = "MembershipError"
  /\ <<"a">> \in Range(package_paths)
  /\ runner_calls = <<>>

\* C28: in every state that the membership walks reach over a fixed tree, no
\* directory is both a key of the package map and in the no-package set, and
\* no file recorded as unowned has an ancestor directory that is a key of the
\* package map.
C28_OwnedAndUnownedAreDisjoint ==
  /\ DOMAIN package_paths \cap no_package_dirs = {}
  /\ \A p \in no_package_paths : Ancestors(p) \cap DOMAIN package_paths = {}

\* C28 witness: a/s/l.rs has been resolved to package a and o/x.rs found
\* unowned, in one pass.
C28_Witness ==
  /\ pc = "statuses"
  /\ next_status = 3
  /\ DOMAIN package_paths = {<<"a", "/", "s">>, <<"a">>}
  /\ no_package_dirs = {<<"o">>, RootDir}
  /\ no_package_paths = {FileO}

\* the lines that report a/s/l.rs as moved to b/l.rs: git's name-status line
\* and the ` -> ` layout
MoveLines ==
  {<<"R", "1", "0", "0", TAB>> \o FileA \o <<TAB>> \o FileB,
   <<"R", SP, SP>> \o FileA \o Arrow \o FileB}

\* the pass over the records has run to its end
PassOver == pc \notin {"resolve", "parse"} /\ result # "ParseError" /\ next_status > Len(git_statuses)

\* every eligible path of the records that the pass has processed was looked up
RemovedPathsLookedUp ==
  \A p \in ProcessedPaths :
    Eligible(p) => (p \in no_package_paths \/ Parent(p) \in DOMAIN package_paths)

\* C29: removed paths count as changes: the deleted path of a Deleted record and
\* both paths of a Renamed record are tested against the workspace trigger and
\* looked up; so a diff that reports a file as moved from package a to package
\* b marks both a and b as changed, and a package whose only change is a deleted
\* source file is marked as changed.
C29_RemovedPathsCountAsChanges ==
  LET lines == Range(SplitLines(text))
  IN /\ RemovedPathsLookedUp
     /\ (LoopLeft /\ \E i \in 1..Len(git_statuses) :
           RemovedOf(git_statuses[i]) \in {<<CargoToml>>, <<CargoLock>>})
          => target = WholeWorkspace
     /\ (PassOver /\ lines \cap MoveLines # {} /\ <<"a">> \in manifest_dirs)
          => {<<"a">>, <<"b">>} \subseteq Range(package_paths)
     /\ (PassOver /\ <<"D", TAB>> \o FileO \in lines /\ RootDir \in manifest_dirs)
          => RootDir \in Range(package_paths)

\* a line of at least three bytes whose status code is none of A, D, M, MM, AM,
\* T and does not begin with R
UnsupportedStatus(line) ==
  /\ Len(line) >= 3
  /\ CodeOf(line) # <<>>
  /\ CodeOf(line) \notin SupportedPathCodes
  /\ CodeOf(line)[1] # "R"

\* C30: the parse error takes precedence over the whole-workspace trigger: the
\* whole diff is parsed before any record is examined, so when any line has an
\* unsupported status the run fails with the parse error, no record is looked
\* up and no check is run, even when another line of the diff names the
\* workspace manifest or lockfile.
C30_ParseErrorPrecedesTrigger ==
  LET lines == SplitLines(text)
  IN (pc # "parse" /\ \E i \in 1..Len(lines) : UnsupportedStatus(lines[i])) =>
       /\ result = "ParseError"
       /\ pc = "done"
       /\ git_statuses = <<>>
       /\ target = "None"
       /\ runner_calls = <<>>
       /\ package_paths = EmptyMap
       /\ no_package_paths = {}

\* C30 witness: the diff names the workspace manifest in its first line and has
\* an unsupported status in its second; the run has failed with the parse error
\* and nothing has been checked.
C30_Witness ==
  /\ text = <<"M", TAB>> \o CargoToml \o <<NL>> \o <<"X", TAB>> \o FileA
  /\ pc = "done"
  /\ result = "ParseError"
  /\ error_line = <<"X", TAB>> \o FileA
  /\ runner_calls = <<>>

====
